---- MODULE Spec2Model ----
(***************************************************************************)
(* A model of make_website.py: the script lists the objects of the SAL     *)
(* topic bucket, groups the listed keys into a three-level dictionary,     *)
(* writes one index page per node of the dictionary under website/ and     *)
(* optionally synchronises website/ with the bucket.                       *)
(*                                                                         *)
(* Text is modelled as a sequence of one-character strings, so that the    *)
(* script's string operations (str() of a bytes object, split, strip,      *)
(* substring tests) are computed and not assumed.  A literal of the        *)
(* script that is never taken apart (a page title) is one element.         *)
(***************************************************************************)
EXTENDS Integers, Sequences, FiniteSets, TLC

(***************************************************************************)
(* Bounds of the model.                                                    *)
(***************************************************************************)
\* The largest number of topic objects in the bucket before the first run.
MaxKeys == 2
\* The number of times the script is run, one run after the other.
MaxRuns == 2

(***************************************************************************)
(* Python string operations.                                               *)
(***************************************************************************)
Last(s) == s[Len(s)]

\* sub in s
Contains(sub, s) ==
    \E i \in 0..(Len(s) - Len(sub)) : SubSeq(s, i + 1, i + Len(sub)) = sub

\* The k-th smallest member of a set of positions.
Nth(P, k) == CHOOSE i \in P : Cardinality({j \in P : j < i}) = k - 1

\* s.split(sep) for a one-character sep: the pieces between the separators,
\* empty pieces kept ('a//b'.split('/') is ['a', '', 'b'], ''.split('/') is ['']).
Split(s, sep) ==
    LET P == {i \in 1..Len(s) : s[i] = sep}
        n == Cardinality(P)
        cut(k) == IF k = 0 THEN 0 ELSE IF k = n + 1 THEN Len(s) + 1 ELSE Nth(P, k)
    IN  [k \in 1..(n + 1) |-> SubSeq(s, cut(k - 1) + 1, cut(k) - 1)]

Whitespace == {" ", "\n"}

\* s.split(): the maximal runs of non-whitespace characters, none empty.
SplitWhitespace(s) ==
    LET black(i) == i >= 1 /\ i <= Len(s) /\ s[i] \notin Whitespace
        starts == {i \in 1..Len(s) : black(i) /\ ~black(i - 1)}
        ends   == {i \in 1..Len(s) : black(i) /\ ~black(i + 1)}
    IN  [k \in 1..Cardinality(starts) |-> SubSeq(s, Nth(starts, k), Nth(ends, k))]

\* s.strip(ch): ch removed from both ends, as often as it is there.
RECURSIVE Strip(_, _)
Strip(s, ch) ==
    IF s = <<>> THEN s
    ELSE IF s[1] = ch THEN Strip(Tail(s), ch)
    ELSE IF s[Len(s)] = ch THEN Strip(SubSeq(s, 1, Len(s) - 1), ch)
    ELSE s

Apostrophe == "'"
DoubleQuote == "\""
Backslash == "\\"

\* The quote character repr() puts around a bytes object: the double quote
\* when the bytes hold an apostrophe and no double quote, else the apostrophe.
ReprQuote(b) ==
    IF (\E i \in 1..Len(b) : b[i] = Apostrophe) /\ ~(\E i \in 1..Len(b) : b[i] = DoubleQuote)
    THEN DoubleQuote ELSE Apostrophe

\* The bytes between the quotes, the quote character and the backslash
\* escaped; the bytes are halved so that the recursion stays shallow.
RECURSIVE ReprBody(_, _)
ReprBody(b, q) ==
    IF b = <<>> THEN <<>>
    ELSE IF Len(b) = 1
    THEN (IF b[1] = q \/ b[1] = Backslash THEN <<Backslash, b[1]>> ELSE b)
    ELSE ReprBody(SubSeq(b, 1, Len(b) \div 2), q)
         \o ReprBody(SubSeq(b, Len(b) \div 2 + 1, Len(b)), q)

\* str(result) for a bytes object of printable ASCII: b'...' or b"...",
\* the quote character and the backslash escaped.
StrOfBytes(b) ==
    <<"b", ReprQuote(b)>> \o ReprBody(b, ReprQuote(b)) \o <<ReprQuote(b)>>

\* str.capitalize() on the letters the model's keys start with.
Upper(c) ==
    CASE c = "t" -> "T"
      [] c = "u" -> "U"
      [] c = "c" -> "C"
      [] OTHER -> c

Capitalize(s) == IF s = <<>> THEN s ELSE <<Upper(s[1])>> \o Tail(s)

(***************************************************************************)
(* The script's constants.                                                 *)
(***************************************************************************)
OUTPUT_LOCATION == <<"w", "e", "b", "s", "i", "t", "e">>
INDEX_FILE == <<"i", "n", "d", "e", "x", ".", "h", "t", "m", "l">>

\* The exclusions with the index file name forgotten.
LS_EXCLUDES_NoIndexFile ==
    << <<"c", "s", "s">>,
       <<"i", "m", "a", "g", "e", "s">>,
       <<".", "g", "i", "t", "i", "g", "n", "o", "r", "e">> >>

LS_EXCLUDES ==
    << INDEX_FILE,
       <<"c", "s", "s">>,
       <<"i", "m", "a", "g", "e", "s">>,
       <<".", "g", "i", "t", "i", "g", "n", "o", "r", "e">> >>

(***************************************************************************)
(* The bucket.  Its objects are named by keys; the keys the topic          *)
(* documents and static assets of a run may have are the ones below.       *)
(***************************************************************************)
KeyFooBar   == <<"t", "/", "c", "/", "a", "_", "b", ".", "h">>        \* t/c/a_b.h
KeyPlain    == <<"t", "/", "c", "/", "d", ".", "h">>                  \* t/c/d.h
KeyUnders   == <<"u", "_", "v", "/", "e", "_", "f", "/",
                 "g", "_", "a", ".", "b", "_", "c">>                  \* u_v/e_f/g_a.b_c
KeyAsset    == <<"t", "/", "c", "s", "s", "/", "a", ".", "h">>        \* t/css/a.h
KeyShort    == <<"t", "/", "d">>                                      \* t/d
KeyEmptySeg == <<"t", "/", "/", "a", ".", "h">>                       \* t//a.h
KeyQuote    == <<"t", "/", "c", "/", "e", "'", ".", "h">>             \* t/c/e'.h

TopicKeys ==
    {KeyFooBar, KeyPlain, KeyUnders, KeyAsset, KeyShort, KeyEmptySeg, KeyQuote}

\* The characters of the model's keys in ASCII order.
AsciiOrder ==
    <<"\"", "'", ".", "/", "_", "a", "b", "c", "d", "e", "f", "g", "h", "i", "l",
      "m", "n", "s", "t", "u", "v", "x">>

Rank(c) == CHOOSE i \in 1..Len(AsciiOrder) : AsciiOrder[i] = c

\* a sorts before b in the bucket's listing order: by the first character
\* that differs, a proper prefix first.
KeyLess(a, b) ==
    LET n    == IF Len(a) < Len(b) THEN Len(a) ELSE Len(b)
        diff == {i \in 1..n : a[i] # b[i]}
    IN  IF diff = {} THEN Len(a) < Len(b)
        ELSE LET i == CHOOSE d \in diff : \A e \in diff : d <= e
             IN  Rank(a[i]) < Rank(b[i])

RECURSIVE SortKeys(_)
SortKeys(keys) ==
    IF keys = {} THEN <<>>
    ELSE LET first == CHOOSE k \in keys : \A o \in keys \ {k} : KeyLess(k, o)
         IN  <<first>> \o SortKeys(keys \ {first})

\* One line of `aws s3 ls --recursive`: date, time, size and key.
LsLine(key) == <<"2021-01-01", " ", "00:00:00", " ", "123", " ">> \o key \o <<"\n">>

RECURSIVE Concat(_)
Concat(seqs) == IF seqs = <<>> THEN <<>> ELSE Head(seqs) \o Concat(Tail(seqs))

\* The standard output of the listing command for a set of keys.
LsStdout(keys) == Concat([i \in 1..Cardinality(keys) |-> LsLine(SortKeys(keys)[i])])

(***************************************************************************)
(* Python dictionaries keep insertion order: a dictionary is the sequence  *)
(* of its <<key, value>> pairs in the order the keys were first set.       *)
(***************************************************************************)
DictKeys(d) == [i \in 1..Len(d) |-> d[i][1]]
DictHas(d, k) == \E i \in 1..Len(d) : d[i][1] = k
DictGet(d, k) == d[CHOOSE i \in 1..Len(d) : d[i][1] = k][2]
DictPut(d, k, v) ==
    IF DictHas(d, k)
    THEN [i \in 1..Len(d) |-> IF d[i][1] = k THEN <<k, v>> ELSE d[i]]
    ELSE Append(d, <<k, v>>)
\* d[k] of a defaultdict: a missing key is set to the default first.
DefaultGet(d, k) == IF DictHas(d, k) THEN d ELSE Append(d, <<k, <<>>>>)

(***************************************************************************)
(* get_bucket_directories: the body of the loop over the listing's lines.  *)
(***************************************************************************)
\* values = str(result).split()[-1].strip('\'')
Values(result) == Strip(Last(SplitWhitespace(StrOfBytes(result))), Apostrophe)

\* The exclusion test as a comparison of the whole path.
IsExcludedEqual(values) == \E i \in 1..Len(LS_EXCLUDES) : LS_EXCLUDES[i] = values

\* for exclude in LS_EXCLUDES: if exclude in values
IsExcluded(values) == \E i \in 1..Len(LS_EXCLUDES) : Contains(LS_EXCLUDES[i], values)

Skipped(values) == IsExcluded(values) \/ values = <<"b">>

\* artifacts[items[0]][items[1]].append(items[2]) with three items or more.
AppendLeaf(art, items) ==
    LET a1 == DefaultGet(art, items[1])
        s1 == DefaultGet(DictGet(a1, items[1]), items[2])
    IN  DictPut(a1, items[1], DictPut(s1, items[2], Append(DictGet(s1, items[2]), items[3])))

\* The dictionary as the statement leaves it when an index is out of range:
\* the top-level key is set before items[1] is read, the sub-key's list is
\* made before items[2] is read.
PartialLeaf(art, items) ==
    LET a1 == DefaultGet(art, items[1])
    IN  IF Len(items) < 2 THEN a1
        ELSE DictPut(a1, items[1], DefaultGet(DictGet(a1, items[1]), items[2]))

(***************************************************************************)
(* write_html_index_file: the page written for a content dictionary and a  *)
(* list of links.  The page is kept as its title, its heading (when the    *)
(* content has one) and its anchors; the fixed lines of the template are   *)
(* the same in every page and are left out.                                *)
(***************************************************************************)
\* The display text with the underscore cut made on every page.
LinkTextAlwaysCut(content, link) == Last(Split(Split(link, ".")[1], "_"))

\* text = link.split('.')[0]; if 'link' in content: text = text.split('_')[-1]
LinkText(content, link) ==
    LET text == Split(link, ".")[1]
    IN  IF "link" \in DOMAIN content THEN Last(Split(text, "_")) ELSE text

Page(content, links) ==
    [title   |-> content.title,
     heading |-> IF "heading" \in DOMAIN content THEN <<content.heading>> ELSE <<>>,
     anchors |-> [i \in 1..Len(links) |->
                    [href |-> links[i], text |-> LinkText(content, links[i])]]]

FrontContent ==
    [title |-> <<"SAL Topics Frontpage">>, heading |-> <<"Version of SAL Topics">>]
KeyContent(key) == [title |-> <<"SAL Topics for ">> \o Capitalize(key)]
SubContent(kitem) == [title |-> kitem, heading |-> kitem, link |-> TRUE]

(***************************************************************************)
(* The local file system.  A path is the sequence of its segments below    *)
(* the script's directory; the file system ignores an empty segment        *)
(* ('website/t/' is the directory 'website/t').  Every file the script     *)
(* writes is named index.html, so a file is known by its directory.        *)
(***************************************************************************)
NonEmpty(seg) == seg # <<>>
Resolve(path) == SelectSeq(path, NonEmpty)

\* os.path.join(path, key) for a key that holds no separator.
Join(path, key) == Append(path, key)

\* web_dir = os.path.join(get_local_directory(), OUTPUT_LOCATION)
WebDir == Join(<<>>, OUTPUT_LOCATION)

\* os.makedirs(path): every missing directory of the path is made; a path
\* that is there already raises FileExistsError.
MakeDirs(dirs, path) ==
    IF Resolve(path) \in dirs
    THEN [err |-> "FileExistsError", dirs |-> dirs]
    ELSE [err |-> "none",
          dirs |-> dirs \cup {SubSeq(Resolve(path), 1, n) : n \in 0..Len(Resolve(path))}]

\* The directories made without the test that they are missing.
MakeDirsUnchecked(dirs, path) == MakeDirs(dirs, path)

\* if not os.path.exists(path): os.makedirs(path)
CheckAndMakeDirs(dirs, path) ==
    IF Resolve(path) \in dirs THEN [err |-> "none", dirs |-> dirs]
    ELSE MakeDirs(dirs, path)

\* open(os.path.join(path, INDEX_FILE), 'w') and writelines: the file is
\* made or replaced; a directory that is not there raises FileNotFoundError.
WriteIndex(dirs, files, path, page) ==
    IF Resolve(path) \in dirs
    THEN [err |-> "none", files |-> (Resolve(path) :> page) @@ files]
    ELSE [err |-> "FileNotFoundError", files |-> files]

RECURSIVE JoinSegments(_)
JoinSegments(segs) ==
    IF segs = <<>> THEN <<>> ELSE Head(segs) \o <<"/">> \o JoinSegments(Tail(segs))

\* The key `aws s3 sync website/ s3://bucket` gives the index file of a
\* directory: its path below website/.
ObjectKey(dir) == JoinSegments(Tail(dir)) \o INDEX_FILE

(***************************************************************************)
(* The state: the bucket and the local file system, which outlive a run,   *)
(* and the state of the run in progress.                                   *)
(***************************************************************************)
VARIABLES
    bucket,     \* the keys of the bucket's objects
    fsDirs,     \* the directories of the local file system
    fsFiles,    \* directory -> the page in its index.html
    opts,       \* the parsed command line: sync and verbose
    run,        \* the number of the run in progress
    pc,         \* where the run is in main()
    lsStatus,   \* how the listing command of this run ended
    listed,     \* the keys the listing command of this run reported
    results,    \* the lines of its standard output
    idx,        \* the line the loop of get_bucket_directories is at
    artifacts,  \* the dictionary it builds
    ki,         \* the top-level key main() is at
    si,         \* the sub-key make_html() is at
    faultKind,  \* the exception that ended the run, "none" when none did
    writes,     \* the index files this run has written, in order
    syncCount,  \* the sync commands this run has invoked
    uploaded,   \* whether the sync command of this run uploaded website/
    printed,    \* the print() calls of this run
    prev        \* how the run before this one ended

vars == <<bucket, fsDirs, fsFiles, opts, run, pc, lsStatus, listed, results, idx,
          artifacts, ki, si, faultKind, writes, syncCount, uploaded, printed, prev>>

\* -v is counted.  The script prints the sync command's output above 0, the
\* dictionary above 1 and 2 and the items of a line above 3: no flag, one
\* flag and four flags are the runs that print nothing, the least and all.
Verbosity == {0, 1, 4}

NoFiles == [d \in {} |-> d]

NoRun ==
    [status |-> "none", artifacts |-> <<>>, dirs |-> {}, files |-> NoFiles,
     uploaded |-> FALSE, syncCount |-> 0, lsStatus |-> "none"]

Init ==
    /\ bucket \in {b \in SUBSET TopicKeys : Cardinality(b) <= MaxKeys}
    /\ fsDirs \in {{<<>>}, {<<>>, WebDir}}
    /\ fsFiles = NoFiles
    /\ opts \in [sync : BOOLEAN, verbose : Verbosity]
    /\ run = 1
    /\ pc = "start"
    /\ lsStatus = "none"
    /\ listed = {}
    /\ results = <<>>
    /\ idx = 1
    /\ artifacts = <<>>
    /\ ki = 1
    /\ si = 1
    /\ faultKind = "none"
    /\ writes = <<>>
    /\ syncCount = 0
    /\ uploaded = FALSE
    /\ printed = 0
    /\ prev = NoRun

Bit(b) == IF b THEN 1 ELSE 0

(***************************************************************************)
(* get_bucket_directories.                                                 *)
(***************************************************************************)
\* subprocess.run of the listing command and the split of its output.  The
\* command cannot be started (subprocess.run raises), or it ends with a
\* non-zero status and an empty standard output, or it lists the bucket.
\* The return code is not read.
Listing ==
    /\ pc = "start"
    /\ \E st \in {"ok", "nonzero", "raised"} :
        /\ lsStatus' = st
        /\ listed' = IF st = "ok" THEN bucket ELSE {}
        /\ results' = IF st = "raised" THEN <<>>
                      ELSE Split(LsStdout(IF st = "ok" THEN bucket ELSE {}), "\n")
        /\ pc' = IF st = "raised" THEN "fault" ELSE "parse"
        /\ faultKind' = IF st = "raised" THEN "ExecError" ELSE "none"
    /\ idx' = 1
    /\ artifacts' = <<>>
    /\ UNCHANGED <<bucket, fsDirs, fsFiles, opts, run, ki, si, writes, syncCount,
                   uploaded, printed, prev>>

\* One turn of the loop over the lines.
ParseLine ==
    /\ pc = "parse"
    /\ idx <= Len(results)
    /\ LET values == Values(results[idx])
           items  == Split(values, "/")
       IN  IF Skipped(values)
           THEN /\ idx' = idx + 1
                /\ UNCHANGED <<artifacts, pc, faultKind, printed>>
           ELSE IF Len(items) < 3
           THEN /\ artifacts' = PartialLeaf(artifacts, items)
                /\ pc' = "fault"
                /\ faultKind' = "IndexError"
                /\ printed' = printed + Bit(opts.verbose > 3)
                /\ UNCHANGED idx
           ELSE /\ artifacts' = AppendLeaf(artifacts, items)
                /\ idx' = idx + 1
                /\ printed' = printed + Bit(opts.verbose > 3) + Bit(opts.verbose > 2)
                /\ UNCHANGED <<pc, faultKind>>
    /\ UNCHANGED <<bucket, fsDirs, fsFiles, opts, run, lsStatus, listed, results,
                   ki, si, writes, syncCount, uploaded, prev>>

\* The end of the loop and the return to main().
ParseReturn ==
    /\ pc = "parse"
    /\ idx > Len(results)
    /\ printed' = printed + Bit(opts.verbose > 1)
    /\ pc' = "front"
    /\ UNCHANGED <<bucket, fsDirs, fsFiles, opts, run, lsStatus, listed, results, idx,
                   artifacts, ki, si, faultKind, writes, syncCount, uploaded, prev>>

(***************************************************************************)
(* main() and make_html(): the index files.                                *)
(***************************************************************************)
CurKey    == artifacts[ki][1]
CurItems  == artifacts[ki][2]
CurSub    == CurItems[si][1]
CurLeaves == CurItems[si][2]

\* save_path and save_sub_path of make_html.
SavePath    == Join(WebDir, CurKey)
SaveSubPath == Join(SavePath, CurSub)

\* The run going on after a file system call whatever it raised.
AfterFsSwallowed(err, next) == next

\* Where the run goes after a file system call: on, or out with the
\* exception, which nothing catches.
AfterFs(err, next) == IF err = "none" THEN next ELSE "fault"

Raised(err) == IF err = "none" THEN faultKind ELSE err

\* The next turn of `for dirkey in artifacts`, or the end of the loop.
NextKeyPc == IF ki < Len(artifacts) THEN "mkdir_key" ELSE "sync"
NextKeyKi == IF ki < Len(artifacts) THEN ki + 1 ELSE ki

WriteEvent(level, node, path, page) ==
    [level |-> level, node |-> node, dir |-> Resolve(path), page |-> page]

\* write_html_index_file(web_dir, front page content, artifacts.keys(), opts)
WriteFrontPage ==
    /\ pc = "front"
    /\ LET page == Page(FrontContent, DictKeys(artifacts))
           r    == WriteIndex(fsDirs, fsFiles, WebDir, page)
       IN  /\ fsFiles' = r.files
           /\ writes' = IF r.err = "none"
                        THEN Append(writes, WriteEvent("front", <<>>, WebDir, page))
                        ELSE writes
           /\ faultKind' = Raised(r.err)
           /\ pc' = AfterFs(r.err, IF Len(artifacts) = 0 THEN "sync" ELSE "mkdir_key")
    /\ ki' = 1
    /\ si' = 1
    /\ UNCHANGED <<bucket, fsDirs, opts, run, lsStatus, listed, results, idx, artifacts,
                   syncCount, uploaded, printed, prev>>

\* make_html: check_and_make_dirs(save_path)
MakeKeyDir ==
    /\ pc = "mkdir_key"
    /\ LET r == CheckAndMakeDirs(fsDirs, SavePath)
       IN  /\ fsDirs' = r.dirs
           /\ faultKind' = Raised(r.err)
           /\ pc' = AfterFs(r.err, "write_key")
    /\ UNCHANGED <<bucket, fsFiles, opts, run, lsStatus, listed, results, idx, artifacts,
                   ki, si, writes, syncCount, uploaded, printed, prev>>

\* make_html: write_html_index_file(save_path, key content, items.keys(), opts)
WriteKeyIndex ==
    /\ pc = "write_key"
    /\ LET page == Page(KeyContent(CurKey), DictKeys(CurItems))
           r    == WriteIndex(fsDirs, fsFiles, SavePath, page)
       IN  /\ fsFiles' = r.files
           /\ writes' = IF r.err = "none"
                        THEN Append(writes, WriteEvent("key", <<CurKey>>, SavePath, page))
                        ELSE writes
           /\ faultKind' = Raised(r.err)
           /\ pc' = AfterFs(r.err, IF Len(CurItems) = 0 THEN NextKeyPc ELSE "mkdir_sub")
           /\ ki' = IF r.err = "none" /\ Len(CurItems) = 0 THEN NextKeyKi ELSE ki
    /\ si' = 1
    /\ UNCHANGED <<bucket, fsDirs, opts, run, lsStatus, listed, results, idx, artifacts,
                   syncCount, uploaded, printed, prev>>

\* make_html: check_and_make_dirs(save_sub_path)
MakeSubDir ==
    /\ pc = "mkdir_sub"
    /\ LET r == CheckAndMakeDirs(fsDirs, SaveSubPath)
       IN  /\ fsDirs' = r.dirs
           /\ faultKind' = Raised(r.err)
           /\ pc' = AfterFs(r.err, "write_sub")
    /\ UNCHANGED <<bucket, fsFiles, opts, run, lsStatus, listed, results, idx, artifacts,
                   ki, si, writes, syncCount, uploaded, printed, prev>>

\* make_html: write_html_index_file(save_sub_path, sub-key content, vitem, opts)
WriteSubIndex ==
    /\ pc = "write_sub"
    /\ LET page == Page(SubContent(CurSub), CurLeaves)
           r    == WriteIndex(fsDirs, fsFiles, SaveSubPath, page)
           more == si < Len(CurItems)
       IN  /\ fsFiles' = r.files
           /\ writes' = IF r.err = "none"
                        THEN Append(writes,
                                    WriteEvent("sub", <<CurKey, CurSub>>, SaveSubPath, page))
                        ELSE writes
           /\ faultKind' = Raised(r.err)
           /\ pc' = AfterFs(r.err, IF more THEN "mkdir_sub" ELSE NextKeyPc)
           /\ si' = IF r.err # "none" THEN si ELSE IF more THEN si + 1 ELSE 1
           /\ ki' = IF r.err # "none" \/ more THEN ki ELSE NextKeyKi
    /\ UNCHANGED <<bucket, fsDirs, opts, run, lsStatus, listed, results, idx, artifacts,
                   syncCount, uploaded, printed, prev>>

\* A directory or file creation the operating system refuses (permissions,
\* a full disk): the exception ends the run where it is.
FsFault ==
    /\ pc \in {"front", "mkdir_key", "write_key", "mkdir_sub", "write_sub"}
    /\ pc' = "fault"
    /\ faultKind' = "OSError"
    /\ UNCHANGED <<bucket, fsDirs, fsFiles, opts, run, lsStatus, listed, results, idx,
                   artifacts, ki, si, writes, syncCount, uploaded, printed, prev>>

(***************************************************************************)
(* main(): the sync command.                                               *)
(***************************************************************************)
\* The sync command invoked whatever the option.
SyncWantedAlways == TRUE

\* if opts.sync:
SyncWanted == opts.sync

\* subprocess.run of the sync command.  Its return code is not read: the
\* command uploads website/ or fails without a trace.  Its output is
\* printed when verbose > 0.
Sync ==
    /\ pc = "sync"
    /\ SyncWanted
    /\ \E ok \in BOOLEAN :
        /\ bucket' = IF ok THEN bucket \cup {ObjectKey(d) : d \in DOMAIN fsFiles}
                     ELSE bucket
        /\ uploaded' = ok
    /\ syncCount' = syncCount + 1
    /\ printed' = printed + Bit(opts.verbose > 0)
    /\ pc' = "done"
    /\ UNCHANGED <<fsDirs, fsFiles, opts, run, lsStatus, listed, results, idx, artifacts,
                   ki, si, faultKind, writes, prev>>

SkipSync ==
    /\ pc = "sync"
    /\ ~SyncWanted
    /\ pc' = "done"
    /\ UNCHANGED <<bucket, fsDirs, fsFiles, opts, run, lsStatus, listed, results, idx,
                   artifacts, ki, si, faultKind, writes, syncCount, uploaded, printed,
                   prev>>

(***************************************************************************)
(* The script is run again, with the same command line, on the bucket and  *)
(* the file system the run before left.                                    *)
(***************************************************************************)
StartRun ==
    /\ pc \in {"done", "fault"}
    /\ run < MaxRuns
    /\ prev' = [status |-> pc, artifacts |-> artifacts, dirs |-> fsDirs,
                files |-> fsFiles, uploaded |-> uploaded, syncCount |-> syncCount,
                lsStatus |-> lsStatus]
    /\ run' = run + 1
    /\ pc' = "start"
    /\ lsStatus' = "none"
    /\ listed' = {}
    /\ results' = <<>>
    /\ idx' = 1
    /\ artifacts' = <<>>
    /\ ki' = 1
    /\ si' = 1
    /\ faultKind' = "none"
    /\ writes' = <<>>
    /\ syncCount' = 0
    /\ uploaded' = FALSE
    /\ printed' = 0
    /\ UNCHANGED <<bucket, fsDirs, fsFiles, opts>>

Next ==
    \/ Listing
    \/ ParseLine
    \/ ParseReturn
    \/ WriteFrontPage
    \/ MakeKeyDir
    \/ WriteKeyIndex
    \/ MakeSubDir
    \/ WriteSubIndex
    \/ FsFault
    \/ Sync
    \/ SkipSync
    \/ StartRun

Spec == Init /\ [][Next]_vars

(***************************************************************************)
(* What the claims are stated with.                                        *)
(***************************************************************************)
\* The substrings the specification excludes, written out.
ExcludedSubstrings ==
    { <<"i", "n", "d", "e", "x", ".", "h", "t", "m", "l">>,
      <<"c", "s", "s">>,
      <<"i", "m", "a", "g", "e", "s">>,
      <<".", "g", "i", "t", "i", "g", "n", "o", "r", "e">> }

HasExcludedSubstring(path) == \E e \in ExcludedSubstrings : Contains(e, path)

\* The run has left get_bucket_directories by its return.
Parsed ==
    \/ pc \in {"front", "mkdir_key", "write_key", "mkdir_sub", "write_sub", "sync", "done"}
    \/ pc = "fault" /\ faultKind \in {"FileNotFoundError", "FileExistsError", "OSError"}

\* The lines the listing command wrote, as keys, in the order it wrote them.
ListedKeys == SortKeys(listed)

\* The third segments of the keys of L whose first two segments are k and s.
RECURSIVE ThirdSegments(_, _, _)
ThirdSegments(L, k, s) ==
    IF L = <<>> THEN <<>>
    ELSE LET seg == Split(Head(L), "/")
         IN  (IF seg[1] = k /\ seg[2] = s THEN <<seg[3]>> ELSE <<>>)
             \o ThirdSegments(Tail(L), k, s)

\* The number of leaves of the dictionary.
RECURSIVE SumLens(_)
SumLens(d) == IF d = <<>> THEN 0 ELSE Len(Head(d)[2]) + SumLens(Tail(d))
RECURSIVE LeafCount(_)
LeafCount(art) == IF art = <<>> THEN 0 ELSE SumLens(Head(art)[2]) + LeafCount(Tail(art))

\* C1: when every listed path has exactly three segments and no excluded
\* substring, the dictionary get_bucket_directories returns holds, for every
\* (top-level key, sub-key) pair of the listing, exactly the third segments
\* of the lines with that pair, in the order of the lines, and nothing else.
C1_ArtifactMapExact ==
    (/\ Parsed
     /\ lsStatus = "ok"
     /\ \A key \in listed : Len(Split(key, "/")) = 3 /\ ~HasExcludedSubstring(key))
    => /\ \A i \in 1..Len(ListedKeys) :
            LET seg == Split(ListedKeys[i], "/")
            IN  DictHas(artifacts, seg[1]) /\ DictHas(DictGet(artifacts, seg[1]), seg[2])
       /\ \A a \in 1..Len(artifacts) :
            /\ \A a2 \in 1..Len(artifacts) : artifacts[a2][1] = artifacts[a][1] => a2 = a
            /\ artifacts[a][2] # <<>>
            /\ \A b \in 1..Len(artifacts[a][2]) :
                LET sub == artifacts[a][2][b]
                IN  /\ sub[2] # <<>>
                    /\ sub[2] = ThirdSegments(ListedKeys, artifacts[a][1], sub[1])

\* C2: a line whose extracted path holds an excluded substring, or is the
\* sentinel b, is not represented in the dictionary: when the loop over the
\* lines has returned, every key, sub-key and leaf of the dictionary comes
\* from a line that is neither, and the dictionary has as many leaves as
\* there are such lines.
C2_ExcludedNeverRepresented ==
    pc = "front" =>
        LET path == [j \in 1..Len(results) |-> Values(results[j])]
            kept == {j \in 1..Len(results) :
                        ~HasExcludedSubstring(path[j]) /\ path[j] # <<"b">>}
            item == [j \in kept |-> Split(path[j], "/")]
        IN  /\ LeafCount(artifacts) = Cardinality(kept)
            /\ \A a \in 1..Len(artifacts) : \A b \in 1..Len(artifacts[a][2]) :
                \A c \in 1..Len(artifacts[a][2][b][2]) :
                    \E j \in kept :
                        /\ item[j][1] = artifacts[a][1]
                        /\ item[j][2] = artifacts[a][2][b][1]
                        /\ item[j][3] = artifacts[a][2][b][2][c]

C2_Witness ==
    /\ pc = "front"
    /\ KeyAsset \in listed
    /\ Len(artifacts) > 0
    /\ \E j \in 1..Len(results) : Values(results[j]) = <<"b">>

Hrefs(page) == [i \in 1..Len(page.anchors) |-> page.anchors[i].href]

Range(f) == {f[i] : i \in DOMAIN f}

\* The nodes of the dictionary: its top-level keys and its (key, sub-key) pairs.
KeyNodes == {<<artifacts[a][1]>> : a \in 1..Len(artifacts)}
SubNodes ==
    UNION {{<<artifacts[a][1], artifacts[a][2][b][1]>> : b \in 1..Len(artifacts[a][2])} :
           a \in 1..Len(artifacts)}

\* The directory of a node's index file, as the file system names it.
NodeDir(node) == Resolve(<<OUTPUT_LOCATION>> \o node)

\* C3: after a completed build every top-level key has one directory
\* directly under the output root and one index file whose links are the
\* key's sub-keys, every (key, sub-key) pair has one directory and one index
\* file whose links are the pair's leaves in order, and the front page and
\* the nodes all have index files of their own.
C3_OnePagePerNode ==
    pc = "done" =>
        /\ \A a \in 1..Len(artifacts) :
            LET k == artifacts[a][1]
            IN  /\ NodeDir(<<k>>) \in fsDirs
                /\ Len(NodeDir(<<k>>)) = 2
                /\ NodeDir(<<k>>) \in DOMAIN fsFiles
                /\ Range(Hrefs(fsFiles[NodeDir(<<k>>)])) = Range(DictKeys(artifacts[a][2]))
                /\ \A b \in 1..Len(artifacts[a][2]) :
                    LET sub == artifacts[a][2][b]
                    IN  /\ NodeDir(<<k, sub[1]>>) \in fsDirs
                        /\ NodeDir(<<k, sub[1]>>) \in DOMAIN fsFiles
                        /\ Hrefs(fsFiles[NodeDir(<<k, sub[1]>>)]) = sub[2]
        /\ \A n1, n2 \in {<<>>} \cup KeyNodes \cup SubNodes :
            n1 # n2 => NodeDir(n1) # NodeDir(n2)

\* C4: no index file is written into a directory that is not there: the
\* builder has made the directory of every index file before it opens the
\* file, the output root included.
C4_DirectoryEnsuredBeforeWrite == faultKind # "FileNotFoundError"

\* C5: a listing command that fails ends the run before any page: no index
\* file is written and no sync command is invoked.
C5_ListingFailureAborts ==
    lsStatus \in {"nonzero", "raised"} => writes = <<>> /\ syncCount = 0

\* The text of a link before its first period, by position.
BeforeFirstPeriod(link) ==
    LET dots == {i \in 1..Len(link) : link[i] = "."}
    IN  IF dots = {} THEN link
        ELSE SubSeq(link, 1, (CHOOSE i \in dots : \A j \in dots : i <= j) - 1)

\* The text after its last underscore, by position.
AfterLastUnderscore(text) ==
    LET us == {i \in 1..Len(text) : text[i] = "_"}
    IN  IF us = {} THEN text
        ELSE SubSeq(text, (CHOOSE i \in us : \A j \in us : i >= j) + 1, Len(text))

\* C6: on every index page written, each link's display text is the link up
\* to its first period, cut further to what follows its last underscore on
\* the pages of sub-keys and on no other page.
C6_LinkDisplayText ==
    \A w \in 1..Len(writes) :
        \A i \in 1..Len(writes[w].page.anchors) :
            LET anchor == writes[w].page.anchors[i]
            IN  anchor.text =
                    IF writes[w].level = "sub"
                    THEN AfterLastUnderscore(BeforeFirstPeriod(anchor.href))
                    ELSE BeforeFirstPeriod(anchor.href)

C6_Witness ==
    /\ pc = "done"
    /\ \E w \in 1..Len(writes) :
        /\ writes[w].level = "key"
        /\ \E i \in 1..Len(writes[w].page.anchors) :
            writes[w].page.anchors[i] =
                [href |-> <<"e", "_", "f">>, text |-> <<"e", "_", "f">>]
    /\ \E w \in 1..Len(writes) :
        /\ writes[w].level = "sub"
        /\ \E i \in 1..Len(writes[w].page.anchors) :
            writes[w].page.anchors[i] =
                [href |-> <<"g", "_", "a", ".", "b", "_", "c">>, text |-> <<"a">>]

\* C7: with the sync option off no run invokes the sync command, whatever
\* the verbosity and the listing; with it on a run invokes it at most once.
C7_SyncOnlyWhenEnabled ==
    /\ ~opts.sync => syncCount = 0 /\ prev.syncCount = 0
    /\ syncCount <= 1 /\ prev.syncCount <= 1

C7_Witness ==
    /\ pc = "done"
    /\ ~opts.sync
    /\ opts.verbose > 0
    /\ Len(writes) > 2
    /\ prev.status = "done"

\* C8: a run that builds the dictionary the completed run before it built
\* meets no directory or file that stops it, and when it completes the
\* output tree is the tree the run before left.
C8_RerunIdempotent ==
    (prev.status = "done" /\ Parsed /\ artifacts = prev.artifacts) =>
        /\ faultKind \notin {"FileNotFoundError", "FileExistsError"}
        /\ pc = "done" => fsFiles = prev.files /\ fsDirs = prev.dirs

C8_Witness ==
    /\ pc = "done"
    /\ prev.status = "done"
    /\ artifacts = prev.artifacts
    /\ Len(writes) > 3
    /\ fsFiles = prev.files

FsFaults == {"FileNotFoundError", "FileExistsError", "OSError"}

\* C9: within a run no index file is written before the whole listing is
\* parsed; the sync command is invoked only when the front page and the page
\* of every node of the dictionary have been written and nothing has
\* faulted; a run that faults in parsing writes no index file, and a run
\* that faults in a directory or file creation invokes no sync command.
C9_StepsOrdered ==
    /\ writes # <<>> => Parsed /\ idx > Len(results)
    /\ syncCount > 0 =>
        /\ faultKind = "none"
        /\ {<<>>} \cup KeyNodes \cup SubNodes = {writes[w].node : w \in 1..Len(writes)}
    /\ faultKind \in {"IndexError", "ExecError"} => writes = <<>> /\ syncCount = 0
    /\ faultKind \in FsFaults => syncCount = 0

C9_Witness ==
    /\ pc = "done"
    /\ syncCount = 1
    /\ Cardinality(SubNodes) > 1

\* C10: when the run before listed the bucket, completed and uploaded its
\* index files, this run's listing raises no indexing fault on them and the
\* dictionary it builds is the dictionary the run before built.
C10_PublishingDoesNotFeedBack ==
    (prev.status = "done" /\ prev.lsStatus = "ok" /\ prev.uploaded /\ lsStatus = "ok") =>
        /\ faultKind # "IndexError"
        /\ Parsed => artifacts = prev.artifacts

C10_Witness ==
    /\ Parsed
    /\ prev.status = "done" /\ prev.lsStatus = "ok" /\ prev.uploaded /\ lsStatus = "ok"
    /\ Cardinality(SubNodes) > 1
    /\ {INDEX_FILE, <<"t", "/">> \o INDEX_FILE, <<"t", "/", "c", "/">> \o INDEX_FILE}
           \subseteq listed

====
